---- MODULE Spec2Model ----
(***************************************************************************)
(* A model of mmedit/structures/edit_data_sample.py: the module function   *)
(* format_label and the class EditDataSample, a BaseDataElement whose      *)
(* named fields are properties over set_field.                             *)
(*                                                                         *)
(* Numbers are kept in halves (x2 = 2 * value) so that a non-integer       *)
(* float such as 2.5 is an integer of the model (x2 = 5).                  *)
(***************************************************************************)
EXTENDS Integers, Sequences, FiniteSets, TLC

VARIABLES
    data_fields,  \* BaseDataElement._data_fields: the registered names
    attrs,        \* the instance's private attributes: field -> value of "_field"
    num_classes,  \* the sample's metainfo entry num_classes (NoneValue: not set)
    last,         \* the last operation on the sample, its input and its outcome
    call,         \* a direct call of format_label: its arguments
    ret           \* that call's outcome

vars == <<data_fields, attrs, num_classes, last, call, ret>>

\* Longest sequence / array / tensor passed as a label.
MaxLen == 2

(***************************************************************************)
(* Python values.  Every value is a record of one shape:                   *)
(*   type  the class of the value                                          *)
(*   id    the identity of an object (0 for plain numbers and sequences)   *)
(*   ndim  number of dimensions of a tensor / array                        *)
(*   data  the elements, each [dt, x2]                                     *)
(*   meta  the metainfo of a data element, a set of <<key, value>>         *)
(*   more  the data fields of a LabelData other than label                 *)
(***************************************************************************)
Val(t, i, n, d, m, o) ==
    [type |-> t, id |-> i, ndim |-> n, data |-> d, meta |-> m, more |-> o]

Num(dt, x2) == [dt |-> dt, x2 |-> x2]

Plain(t, n, d) == Val(t, 0, n, d, {}, {})

NoneValue == Plain("NoneType", 0, <<>>)

\* The Python int n.
PyInt(n) == Plain("int", 0, <<Num("int", 2 * n)>>)

\* Sequences over S of length 0..n.
SeqUpTo(S, n) == UNION {[1..k -> S] : k \in 0..n}

IntNums == {Num("int", 2 * k) : k \in {-1, 0, 2, 3}}
FloatNums == {Num("float", h) : h \in {-1, 4, 5}}

\* int(x): truncation toward zero (line 31).
IntOf(x2) == IF x2 >= 0 THEN 2 * (x2 \div 2) ELSE -(2 * ((-x2) \div 2))

PyInts == {Plain("int", 0, <<n>>) : n \in IntNums}
PyFloats == {Plain("float", 0, <<n>>) : n \in FloatNums}
PyStrs == {Plain("str", 0, <<>>)}
PyLists == {Plain("list", 1, s) : s \in SeqUpTo(IntNums \cup {Num("float", 5)}, MaxLen)}
Arrays(t) ==
    {Plain(t, 0, <<n>>) : n \in IntNums \cup FloatNums}
    \cup {Plain(t, 1, s) : s \in SeqUpTo(IntNums, MaxLen)}
    \cup {Plain(t, 1, s) : s \in SeqUpTo({Num("float", 5), Num("float", -1)}, MaxLen)}

\* The values format_label is called with.
LabelInputs ==
    PyInts \cup PyFloats \cup PyStrs \cup {NoneValue} \cup PyLists
    \cup Arrays("Tensor") \cup Arrays("ndarray")

NumClassesChoices == {NoneValue, PyInt(3)}

(***************************************************************************)
(* format_label (lines 13-49)                                              *)
(***************************************************************************)
Raise(e) == [err |-> e, value |-> NoneValue]
Return(v) == [err |-> "none", value |-> v]

\* isinstance(value, Sequence) and not mmengine.is_str(value)  (line 35)
IsNonStrSequence(value) == value.type = "list"

\* torch.tensor(sequence): one dtype for all elements, float if any is (line 36)
TorchTensor(value) ==
    LET anyFloat == \E i \in 1..Len(value.data) : value.data[i].dt = "float"
        conv(n) == IF anyFloat THEN Num("float", n.x2) ELSE n
    IN  Plain("Tensor", 1, [i \in 1..Len(value.data) |-> conv(value.data[i])])

\* value.max() >= num_classes, the comparison of line 45 (a non-empty tensor)
RECURSIVE MaxX2(_)
MaxX2(s) ==
    IF Len(s) = 1 THEN s[1].x2
    ELSE LET m == MaxX2(Tail(s)) IN IF s[1].x2 >= m THEN s[1].x2 ELSE m

\* LabelData(label=value, metainfo=metainfo)  (line 48)
LabelData(i, label, metainfo, more) == Val("LabelData", i, 0, label, metainfo, more)

\* ToTensor taking any Number as a single label (isinstance(value, Number)
\* for isinstance(value, int) at line 37), as set_gt_label's signature reads.
ToTensor_acceptsNumber(value) ==
    LET v1 == IF value.type \in {"Tensor", "ndarray"} /\ value.ndim = 0
              THEN Plain("int", 0, <<Num("int", IntOf(value.data[1].x2))>>)
              ELSE value
    IN  IF v1.type = "ndarray" THEN Return(Plain("Tensor", v1.ndim, v1.data))
        ELSE IF v1.type = "list" THEN Return(Plain("Tensor", 1, v1.data))
        ELSE IF v1.type \in {"int", "float"} THEN Return(Plain("Tensor", 1, v1.data))
        ELSE IF v1.type # "Tensor" THEN Raise("TypeError")
        ELSE Return(v1)

\* The tensor that lines 29-40 make of value, or the TypeError of line 40.
ToTensor(value) ==
    LET v1 == IF value.type \in {"Tensor", "ndarray"} /\ value.ndim = 0
              THEN Plain("int", 0, <<Num("int", IntOf(value.data[1].x2))>>)
              ELSE value
    IN  IF v1.type = "ndarray" THEN Return(Plain("Tensor", v1.ndim, v1.data))
        ELSE IF IsNonStrSequence(v1) THEN Return(TorchTensor(v1))
        ELSE IF v1.type = "int" THEN Return(Plain("Tensor", 1, v1.data))
        ELSE IF v1.type # "Tensor" THEN Raise("TypeError")
        ELSE Return(v1)

\* Lines 42-49: the range check against num_classes and the LabelData built.
\* The LabelData is a new object (identity 0: no caller's object).
format_label(value, nc) ==
    LET t == ToTensor(value)
    IN  IF t.err # "none" THEN t
        ELSE IF nc = NoneValue THEN Return(LabelData(0, t.value.data, {}, {}))
        ELSE IF Len(t.value.data) = 0 THEN Raise("RuntimeError")
        ELSE IF MaxX2(t.value.data) >= nc.data[1].x2 THEN Raise("ValueError")
        ELSE Return(LabelData(0, t.value.data, {<<"num_classes", nc>>}, {}))

(***************************************************************************)
(* EditDataSample (lines 52-410)                                           *)
(***************************************************************************)
PixelFields ==
    {"gt_img", "pred_img", "fake_img", "img_lq", "ref_img", "ref_lq",
     "gt_unsharp", "mask", "gt_heatmap", "pred_heatmap", "trimap", "gt_alpha",
     "pred_alpha", "gt_fg", "pred_fg", "gt_bg", "pred_bg", "gt_merged"}

SampleFields == {"gt_samples", "ema", "orig"}

\* The named fields: the 24 properties of the class, those of the docstring's
\* example and of set_gt_label first.
FieldList ==
    <<"gt_img", "gt_label", "noise", "sample_model", "gt_samples",
      "pred_img", "ema", "fake_img", "img_lq", "ref_img", "ref_lq",
      "gt_unsharp", "mask", "gt_heatmap", "pred_heatmap", "trimap",
      "gt_alpha", "pred_alpha", "gt_fg", "pred_fg", "gt_bg", "pred_bg",
      "gt_merged", "orig">>

\* How many of the named fields the operations of a run use.
MaxFields == 4

Fields == {FieldList[i] : i \in 1..MaxFields}

\* The dtype each property's setter passes to set_field.
DeclaredType(f) ==
    IF f \in PixelFields THEN "PixelData"
    ELSE IF f \in SampleFields THEN "EditDataSample"
    ELSE IF f = "noise" THEN "Tensor"
    ELSE IF f = "sample_model" THEN "str"
    ELSE "LabelData"

\* The attribute a property keeps its value in: '_' + the property's name.
Priv(f) == "_" \o f

\* isinstance(value, dtype): the class itself or a subclass of it
\* (torch.nn.Parameter is a subclass of torch.Tensor).
IsInstance(value, dtype) ==
    \/ value.type = dtype
    \/ <<value.type, dtype>> \in {<<"Parameter", "Tensor">>}

Absent == Plain("<absent>", 0, <<>>)

\* A sample's state as the operations below transform it.
State(df, at) == [data_fields |-> df, attrs |-> at]

Outcome(e, S) == [err |-> e, state |-> S]

\* set_field without the isinstance assertion.
set_field_unchecked(S, value, f, dtype) ==
    Outcome("none", State(S.data_fields \cup {Priv(f)},
                          [S.attrs EXCEPT ![f] = value]))

\* set_field raising TypeError where the code asserts.
set_field_raisesTypeError(S, value, f, dtype) ==
    IF ~IsInstance(value, dtype) THEN Outcome("TypeError", S)
    ELSE Outcome("none", State(S.data_fields \cup {Priv(f)},
                               [S.attrs EXCEPT ![f] = value]))

\* A setter copied from gt_img's with the attribute name left as '_gt_img'.
set_field_copyPasted(S, value, f, dtype) ==
    IF ~IsInstance(value, dtype) THEN Outcome("AssertionError", S)
    ELSE Outcome("none", State(S.data_fields \cup {Priv("gt_img")},
                               [S.attrs EXCEPT !["gt_img"] = value]))

\* self.set_field(value, '_<f>', dtype=...) of a property setter (line 119 and
\* its like): the isinstance assertion, then the private name is registered
\* and the value stored.
set_field(S, value, f, dtype) ==
    IF ~IsInstance(value, dtype) THEN Outcome("AssertionError", S)
    ELSE Outcome("none", State(S.data_fields \cup {Priv(f)},
                               [S.attrs EXCEPT ![f] = value]))

\* sample.<f> = value: BaseDataElement.__setattr__ registers the public name
\* as a data field, then object.__setattr__ runs the property's setter.
setattr(S, f, value) ==
    set_field(State(S.data_fields \cup {f}, S.attrs), value, f, DeclaredType(f))

\* delattr that leaves the public name registered.
delattr_keepsName(S, f) ==
    IF S.attrs[f] = Absent THEN Outcome("AttributeError", S)
    ELSE Outcome("none", State(S.data_fields \ {Priv(f)},
                               [S.attrs EXCEPT ![f] = Absent]))

\* delattr that unregisters every name.
delattr_clearsNames(S, f) ==
    IF S.attrs[f] = Absent THEN Outcome("AttributeError", S)
    ELSE Outcome("none", State({}, [S.attrs EXCEPT ![f] = Absent]))

\* del sample.<f>: the property's deleter runs `del self._<f>` (AttributeError
\* when there is none), which unregisters the private name; then
\* BaseDataElement.__delattr__ unregisters the public name.
delattr(S, f) ==
    IF S.attrs[f] = Absent THEN Outcome("AttributeError", S)
    ELSE Outcome("none", State(S.data_fields \ {Priv(f), f},
                               [S.attrs EXCEPT ![f] = Absent]))

\* '<f>' in sample: BaseDataElement.__contains__ (line 394).
Contains(S, f) == f \in S.data_fields

\* set_gt_label that always assigns the new LabelData.
set_gt_label_replaces(S, value, nc) ==
    LET label == format_label(value, nc)
    IN  IF label.err # "none" THEN Outcome(label.err, S)
        ELSE setattr(S, "gt_label", label.value)

\* sample.set_gt_label(value) with nc = self.get('num_classes') (lines 389-398).
set_gt_label(S, value, nc) ==
    LET label == format_label(value, nc)
    IN  IF label.err # "none" THEN Outcome(label.err, S)
        ELSE IF Contains(S, "gt_label")
        THEN IF S.attrs["gt_label"] = Absent THEN Outcome("AttributeError", S)
             ELSE Outcome("none",
                    State(S.data_fields,
                          [S.attrs EXCEPT !["gt_label"].data = label.value.data]))
        ELSE setattr(S, "gt_label", label.value)

(***************************************************************************)
(* The values a caller assigns to fields, and the labels it sets.          *)
(***************************************************************************)
Obj(t, i) == Val(t, i, 0, <<>>, {}, {})

\* LabelData objects of the caller: a bare one, and one with metainfo and a
\* second data field.
CallerLabelData ==
    {LabelData(1, <<Num("int", 0)>>, {}, {}),
     LabelData(2, <<Num("int", 4), Num("int", 0)>>,
               {<<"num_classes", PyInt(5)>>}, {<<"score", Obj("Tensor", 2)>>})}

FieldValues ==
    {Obj("PixelData", 1), Obj("EditDataSample", 1), Obj("str", 1),
     Obj("Tensor", 1), Obj("Parameter", 1)}
    \cup CallerLabelData

SampleLabelInputs ==
    {PyInt(0), PyInt(3), Plain("float", 0, <<Num("float", 5)>>)}

NotCalled == Raise("not called")

Op(o, e, r) == [op |-> o, err |-> e, ret |-> r]

Here == State(data_fields, attrs)

InitSample ==
    /\ data_fields = {}
    /\ attrs = [f \in Fields |-> Absent]
    /\ last = Op("init", "none", "none")

\* EditDataSample() or EditDataSample(metainfo=dict(num_classes=3)).
Init ==
    /\ InitSample
    /\ num_classes \in NumClassesChoices
    /\ call = [value |-> NoneValue, nc |-> NoneValue]
    /\ ret = NotCalled

\* sample.<f> = v
Assign(f, v) ==
    /\ LET r == setattr(Here, f, v)
       IN  /\ data_fields' = r.state.data_fields
           /\ attrs' = r.state.attrs
           /\ last' = Op("assign", r.err, "none")
    /\ UNCHANGED <<num_classes, call, ret>>

\* del sample.<f>
Delete(f) ==
    /\ LET r == delattr(Here, f)
       IN  /\ data_fields' = r.state.data_fields
           /\ attrs' = r.state.attrs
           /\ last' = Op("delete", r.err, "none")
    /\ UNCHANGED <<num_classes, call, ret>>

\* sample.set_gt_label(v): returns self unless it raises.
SetGtLabel(v) ==
    /\ LET r == set_gt_label(Here, v, num_classes)
       IN  /\ data_fields' = r.state.data_fields
           /\ attrs' = r.state.attrs
           /\ last' = Op("set_gt_label", r.err,
                         IF r.err = "none" THEN "self" ELSE "none")
    /\ UNCHANGED <<num_classes, call, ret>>

Next ==
    \/ \E f \in Fields, v \in FieldValues : Assign(f, v)
    \/ \E f \in Fields : Delete(f)
    \/ \E v \in SampleLabelInputs : SetGtLabel(v)

Spec == Init /\ [][Next]_vars

\* A direct call format_label(value, num_classes) of the module function.
InitFmt ==
    /\ InitSample
    /\ num_classes = NoneValue
    /\ call \in [value : LabelInputs, nc : NumClassesChoices]
    /\ ret = NotCalled

FormatLabelCall ==
    /\ ret = NotCalled
    /\ ret' = format_label(call.value, call.nc)
    /\ UNCHANGED <<data_fields, attrs, num_classes, last, call>>

NextFmt == FormatLabelCall

SpecFmt == InitFmt /\ [][NextFmt]_vars

(***************************************************************************)
(* Properties                                                              *)
(***************************************************************************)
Called == ret # NotCalled

\* The numbers of a value's elements, in order.
X2s(d) == [i \in 1..Len(d) |-> d[i].x2]

\* The types format_label documents as supported.
Supported(value) == value.type \in {"Tensor", "ndarray", "list", "int"}

OutOfRange(n, nc) == n.x2 >= nc.data[1].x2 \/ n.x2 < 0

AnyOutOfRange(value, nc) ==
    \E i \in 1..Len(value.data) : OutOfRange(value.data[i], nc)

\* C5: with num_classes given, format_label raises ValueError for every
\* supported input holding a label at or above num_classes or below 0.
C5_OutOfRangeRejected ==
    (Called /\ Supported(call.value) /\ call.nc # NoneValue
        /\ AnyOutOfRange(call.value, call.nc))
    => ret.err = "ValueError"

\* C6: format_label turns every supported input into a LabelData whose label
\* holds the same elements in the same order (one element for an int or a
\* zero-dimensional input); with num_classes given and all labels in range
\* the metainfo records num_classes, with num_classes None it is empty and
\* nothing is range-checked.
C6_ConvertsEverySupportedInput ==
    (Called /\ Supported(call.value)
        /\ (call.nc = NoneValue \/ ~AnyOutOfRange(call.value, call.nc)))
    => /\ ret.err = "none"
       /\ ret.value.type = "LabelData"
       /\ X2s(ret.value.data) = X2s(call.value.data)
       /\ (call.value.ndim = 0 => Len(ret.value.data) = 1)
       /\ ret.value.meta = IF call.nc = NoneValue THEN {}
                           ELSE {<<"num_classes", call.nc>>}

\* C7: format_label raises TypeError for every value that is not a tensor,
\* an array, a non-string sequence or an int (a str, None, a float), with or
\* without num_classes.
C7_UnsupportedTypeRaisesTypeError ==
    (Called /\ ~Supported(call.value)) => ret.err = "TypeError"

C7_Witness ==
    /\ Called
    /\ call.value.type = "float"
    /\ call.nc # NoneValue
    /\ ret.err = "TypeError"

Registered(f) == Contains(Here, f)

RegisteredNext(f) == Contains(State(data_fields', attrs'), f)

SampleUnchanged == data_fields' = data_fields /\ attrs' = attrs

\* C1: assigning a value of the declared type to a named field succeeds and
\* the field then reads as that value; it keeps reading as that same object
\* until the field is assigned or deleted (set_gt_label changes the label of
\* the gt_label object in place, the object stays).
C1_AssignedValueIsRead ==
    [][/\ last'.op = "assign"
          => \A f \in Fields, v \in FieldValues :
                (Assign(f, v) /\ v.type = DeclaredType(f))
                => (last'.err = "none" /\ attrs'[f] = v)
       /\ \A f \in Fields :
            (attrs[f] # Absent /\ attrs'[f] # attrs[f])
            => \/ Delete(f)
               \/ \E v \in FieldValues : Assign(f, v)
               \/ /\ f = "gt_label"
                  /\ \E v \in SampleLabelInputs : SetGtLabel(v)
                  /\ attrs'[f] = [attrs[f] EXCEPT !.data = attrs'[f].data]
      ]_vars

\* Only noise is registered, so the successful assignment was to noise.
C1_Witness ==
    /\ last = Op("assign", "none", "none")
    /\ data_fields = {"noise", Priv("noise")}
    /\ attrs["noise"] = Obj("Tensor", 1)

\* C2 as stated: assigning a value whose type is not the declared type fails
\* with a TypeError.
C2_MismatchRaisesTypeError ==
    [][\A f \in Fields, v \in FieldValues :
          (Assign(f, v) /\ v.type # DeclaredType(f)) => last'.err = "TypeError"
      ]_vars

\* C2 amended: assigning a value that is not an instance of the declared
\* type fails with an AssertionError and stores nothing; an instance of a
\* subclass of the declared type is accepted.
C2_MismatchFailsAssertion ==
    [][\A f \in Fields, v \in FieldValues :
          Assign(f, v)
          => IF v.type = DeclaredType(f)
                \/ (v.type = "Parameter" /\ DeclaredType(f) = "Tensor")
             THEN last'.err = "none"
             ELSE last'.err = "AssertionError" /\ attrs' = attrs
      ]_vars

C2_Witness ==
    /\ last = Op("assign", "AssertionError", "none")
    /\ \E f \in Fields : Registered(f) /\ attrs[f] = Absent

C4_PresentHasDeclaredType ==
    \A f \in Fields :
        attrs[f] # Absent
        => \/ attrs[f].type = DeclaredType(f)
           \/ (attrs[f].type = "Parameter" /\ DeclaredType(f) = "Tensor")

\* A rejected assignment, with a field holding a value.
C4_Witness ==
    /\ last = Op("assign", "AssertionError", "none")
    /\ attrs["gt_label"] # Absent
    /\ attrs["sample_model"] # Absent

\* C8: a successful assignment to, or deletion of, one named field leaves the
\* presence and the value of every other named field as they were.
C8_OtherFieldsUnchanged ==
    [][\A f \in Fields :
          (((\E v \in FieldValues : Assign(f, v)) \/ Delete(f)) /\ last'.err = "none")
          => \A g \in Fields \ {f} :
                /\ attrs'[g] = attrs[g]
                /\ RegisteredNext(g) <=> Registered(g)
                /\ (Priv(g) \in data_fields') <=> (Priv(g) \in data_fields)
      ]_vars

\* A deletion succeeded and two other fields still hold values.
C8_Witness ==
    /\ last = Op("delete", "none", "none")
    /\ attrs["gt_img"] # Absent
    /\ attrs["gt_label"] # Absent

\* C9: a successful set_gt_label(value) leaves gt_label present with the
\* label format_label(value, num_classes) produces and returns the sample;
\* a gt_label already there is kept, only its label replaced.
C9_SetGtLabel ==
    [][\A v \in SampleLabelInputs :
          (SetGtLabel(v) /\ last'.err = "none")
          => LET made == format_label(v, num_classes).value
             IN  /\ RegisteredNext("gt_label")
                 /\ attrs'["gt_label"].type = "LabelData"
                 /\ attrs'["gt_label"].data = made.data
                 /\ attrs["gt_label"] # Absent
                    => attrs'["gt_label"] = [attrs["gt_label"] EXCEPT !.data = made.data]
                 /\ attrs["gt_label"] = Absent => attrs'["gt_label"] = made
                 /\ last'.ret = "self"
      ]_vars

\* set_gt_label succeeded on the caller's LabelData 2: the object is still
\* the one held, with its metainfo and score, and a new label.
C9_Witness ==
    /\ last = Op("set_gt_label", "none", "self")
    /\ attrs["gt_label"].id = 2
    /\ attrs["gt_label"].meta = {<<"num_classes", PyInt(5)>>}
    /\ attrs["gt_label"].data = <<Num("int", 0)>>

\* C10: a failing operation (an assignment rejected for its type, a
\* set_gt_label that fails on the value's type or range) leaves the presence
\* and the value of every field as they were.
C10_FailureChangesNothing ==
    [][/\ \A f \in Fields, v \in FieldValues :
            (Assign(f, v) /\ last'.err # "none") => SampleUnchanged
       /\ \A v \in SampleLabelInputs :
            (SetGtLabel(v) /\ last'.err \in {"TypeError", "ValueError"})
            => SampleUnchanged
      ]_vars

====
